---- MODULE Spec2Model ----
(***************************************************************************)
(* Model of the two driver scripts of the repository:                      *)
(*   perception/05_tracker_webcam.py   the webcam polling loop             *)
(*   simulation/sim1_rigid_body/costs.py   the cost classes                *)
(* SpecTracker runs the polling loop, one action per statement group, with *)
(* a per-iteration history of what the script did.  SpecCosts calls the    *)
(* methods of the cost classes on one shared model/data pair.              *)
(***************************************************************************)
EXTENDS Integers, Sequences, FiniteSets, TLC

VARIABLES pc, first, tracking, i, k, ok, pose, frames, released, exc, hist,
          rmodel, rdata, attrs, viewer, last

trackerVars == <<pc, first, tracking, i, k, ok, pose, frames, released, exc, hist>>
costVars == <<rmodel, rdata, attrs, viewer, last>>
vars == <<pc, first, tracking, i, k, ok, pose, frames, released, exc, hist,
          rmodel, rdata, attrs, viewer, last>>

(***************************************************************************)
(* Bounds                                                                  *)
(***************************************************************************)
\* number of loop iterations explored
MaxIter == 4

(***************************************************************************)
(* perception/05_tracker_webcam.py                                         *)
(***************************************************************************)
\* what vid.read() can hand back as the frame: an image, or None when the
\* capture fails (the returned flag ret is never looked at by the script)
Frames == {"image", "None"}

\* cv2.waitKey(1) as the script tells keys apart: ord('d'), ord('x'),
\* ord('q'), anything else (-1 when no key is down)
Keys == {"d", "x", "q", "other"}

\* body2world_pose computed at lines 60-65
InitPose == "initial"

\* poses the external tracker can leave in body.body2world_pose
TrackedPoses == {"tracked1", "tracked2"}

\* the pose of the body as returned by setup_single_object_tracker, before
\* the script assigns it
SetupPose == "setup"

\* mutant: the flag of line 77 starts cleared
FirstInitCleared == FALSE

\* line 77
FirstInit == TRUE

\* line 78
TrackingInit == FALSE

\* mutant: the check of line 87 never fires
CheckFailsNever(o) == FALSE

\* the condition of line 87
CheckFails(o) == ~o

\* mutant: line 91 forgets the 'd' key
ResetCondFirstOnly(f, key) == f

\* mutant: line 91 also resets on the 'x' key
ResetCondOnStart(f, key) == f \/ key = "d" \/ key = "x"

\* the condition of line 91
ResetCond(f, key) == f \/ key = "d"

\* mutant: line 95 starts tracking only after the first iteration's key
StartCondLate(key) == key = "x" /\ Len(hist) > 1

\* the condition of line 95
StartCond(key) == key = "x"

\* mutant: line 98 tests another key
QuitCondOther(key) == key = "other"

\* the condition of line 98
QuitCond(key) == key = "q"

\* the condition of line 100
TrackCond(t) == t

\* record of one loop iteration
NewIter(o, p, t) ==
  [ok |-> o, key |-> "nokey", reset |-> FALSE, wrote |-> "nothing",
   steps |-> 0, stepOn |-> "nothing", viewed |-> FALSE,
   poseIn |-> p, flagIn |-> t, poseOut |-> p, flagOut |-> t, end |-> "running"]

Cur == Len(hist)

Finish(h, e, p, t) ==
  [h EXCEPT ![Len(h)].end = e, ![Len(h)].poseOut = p, ![Len(h)].flagOut = t]

TrackerInit ==
  /\ pc = "start"
  /\ first = FirstInit
  /\ tracking = TrackingInit
  /\ i = 0
  /\ k = "nokey"
  /\ ok = TRUE
  /\ pose = SetupPose
  /\ frames = 0
  /\ released = FALSE
  /\ exc = "none"
  /\ hist = <<>>
  \* the cost objects are not part of this script
  /\ rmodel = "none"
  /\ rdata = <<>>
  /\ attrs = <<>>
  /\ viewer = <<>>
  /\ last = <<>>

\* lines 34-36: the frame read before the loop; frame.shape of None raises
ReadFirstFrame ==
  /\ pc = "start"
  /\ \E f \in Frames :
       /\ frames' = frames + 1
       /\ IF f = "None"
            THEN pc' = "raised" /\ exc' = "AttributeError"
            ELSE pc' = "setup" /\ exc' = exc
  /\ UNCHANGED <<first, tracking, i, k, ok, pose, released, hist>>
  /\ UNCHANGED costVars

\* lines 39-82
Setup ==
  /\ pc = "setup"
  /\ first' = FirstInit
  /\ tracking' = TrackingInit
  /\ i' = 0
  /\ pc' = "read"
  /\ UNCHANGED <<k, ok, pose, frames, released, exc, hist>>
  /\ UNCHANGED costVars

\* lines 83-86
LoopRead ==
  /\ pc = "read"
  /\ i < MaxIter
  /\ \E o \in BOOLEAN :
       /\ ok' = o
       /\ hist' = Append(hist, NewIter(o, pose, tracking))
  /\ frames' = frames + 1
  /\ pc' = "check"
  /\ UNCHANGED <<first, tracking, i, k, pose, released, exc>>
  /\ UNCHANGED costVars

\* lines 87-88
CheckOk ==
  /\ pc = "check"
  /\ IF CheckFails(ok)
       THEN /\ pc' = "raised"
            /\ exc' = "ValueError"
            /\ hist' = Finish(hist, "raised", pose, tracking)
       ELSE /\ pc' = "key"
            /\ UNCHANGED <<exc, hist>>
  /\ UNCHANGED <<first, tracking, i, k, ok, pose, frames, released>>
  /\ UNCHANGED costVars

\* line 90
WaitKey ==
  /\ pc = "key"
  /\ \E key \in Keys :
       /\ k' = key
       /\ hist' = [hist EXCEPT ![Cur].key = key]
  /\ pc' = "reset"
  /\ UNCHANGED <<first, tracking, i, ok, pose, frames, released, exc>>
  /\ UNCHANGED costVars

\* lines 91-94
ResetStep ==
  /\ pc = "reset"
  /\ IF ResetCond(first, k)
       THEN /\ pose' = InitPose
            /\ first' = FALSE
            /\ tracking' = FALSE
            /\ hist' = [hist EXCEPT ![Cur].reset = TRUE, ![Cur].wrote = InitPose]
       ELSE UNCHANGED <<pose, first, tracking, hist>>
  /\ pc' = "start_key"
  /\ UNCHANGED <<i, k, ok, frames, released, exc>>
  /\ UNCHANGED costVars

\* lines 95-97
StartStep ==
  /\ pc = "start_key"
  /\ tracking' = IF StartCond(k) THEN TRUE ELSE tracking
  /\ pc' = "quit_key"
  /\ UNCHANGED <<first, i, k, ok, pose, frames, released, exc, hist>>
  /\ UNCHANGED costVars

\* lines 98-99
QuitStep ==
  /\ pc = "quit_key"
  /\ IF QuitCond(k)
       THEN /\ pc' = "release"
            /\ hist' = Finish(hist, "quit", pose, tracking)
       ELSE /\ pc' = "track"
            /\ UNCHANGED hist
  /\ UNCHANGED <<first, tracking, i, k, ok, pose, frames, released, exc>>
  /\ UNCHANGED costVars

\* lines 100-107: tracker.ExecuteTrackingStep(i) rewrites the pose
TrackStep ==
  /\ pc = "track"
  /\ IF TrackCond(tracking)
       THEN \E p \in TrackedPoses :
              /\ pose' = p
              /\ hist' = [hist EXCEPT ![Cur].steps = @ + 1, ![Cur].stepOn = pose]
       ELSE UNCHANGED <<pose, hist>>
  /\ pc' = "inc"
  /\ UNCHANGED <<first, tracking, i, k, ok, frames, released, exc>>
  /\ UNCHANGED costVars

\* lines 110-111
IncStep ==
  /\ pc = "inc"
  /\ i' = i + 1
  /\ hist' = Finish([hist EXCEPT ![Cur].viewed = TRUE], "completed", pose, tracking)
  /\ pc' = "read"
  /\ UNCHANGED <<first, tracking, k, ok, pose, frames, released, exc>>
  /\ UNCHANGED costVars

\* lines 113-114
Release ==
  /\ pc = "release"
  /\ released' = TRUE
  /\ pc' = "done"
  /\ UNCHANGED <<first, tracking, i, k, ok, pose, frames, exc, hist>>
  /\ UNCHANGED costVars

TrackerNext ==
  \/ ReadFirstFrame
  \/ Setup
  \/ LoopRead
  \/ CheckOk
  \/ WaitKey
  \/ ResetStep
  \/ StartStep
  \/ QuitStep
  \/ TrackStep
  \/ IncStep
  \/ Release

SpecTracker == TrackerInit /\ [][TrackerNext]_vars

(***************************************************************************)
(* Properties of the polling loop                                          *)
(***************************************************************************)
Iters == 1..Len(hist)

Finished(j) == hist[j].end # "running"

\* no key of S was read in iterations a..b
NoKey(S, a, b) == \A m \in a..b : hist[m].key \notin S

\* C1: an iteration whose key is 'd' writes the initial pose, clears the
\* tracking flag and runs no tracking step, and no later iteration runs one
\* until an iteration whose key is 'x'.
C1_ResetStopsTracking ==
  \A j \in Iters :
    hist[j].key = "d" =>
      /\ hist[j].steps = 0
      /\ Finished(j) =>
           /\ hist[j].end = "completed"
           /\ hist[j].reset
           /\ hist[j].wrote = InitPose
           /\ hist[j].poseOut = InitPose
           /\ hist[j].flagOut = FALSE
      /\ \A l \in (j + 1)..Len(hist) :
           NoKey({"x"}, j + 1, l) => hist[l].steps = 0

\* tracking was on, 'd' was pressed, and a later iteration ran without 'x'
C1_Witness ==
  \E j \in Iters :
    /\ j > 1 /\ j < Len(hist)
    /\ hist[j - 1].steps = 1
    /\ hist[j].key = "d" /\ hist[j].end = "completed"
    /\ hist[j + 1].key = "other" /\ hist[j + 1].end = "completed"

\* C2 (as stated): an iteration whose key is 'x' sets the flag and runs one
\* tracking step, and so does EVERY following iteration until one whose key
\* is 'd' or 'q'.
C2_Original ==
  \A j \in Iters :
    (hist[j].key = "x" /\ Finished(j)) =>
      /\ hist[j].flagOut = TRUE
      /\ hist[j].steps = 1
      /\ \A l \in (j + 1)..Len(hist) :
           (Finished(l) /\ NoKey({"d", "q"}, j + 1, l)) => hist[l].steps = 1

\* C2 (amended): the following iterations run exactly one tracking step
\* provided their camera update succeeds; an iteration whose camera update
\* fails raises before any tracking step.
C2_StartTracking ==
  \A j \in Iters :
    (hist[j].key = "x" /\ Finished(j)) =>
      /\ hist[j].flagOut = TRUE
      /\ hist[j].steps = 1
      /\ \A l \in (j + 1)..Len(hist) :
           (Finished(l) /\ NoKey({"d", "q"}, j + 1, l)) =>
             hist[l].steps = (IF hist[l].ok THEN 1 ELSE 0)

\* 'x' is the key of the very first iteration, and the next one tracks too
C2_Witness ==
  /\ Len(hist) >= 2
  /\ hist[1].key = "x" /\ hist[1].reset /\ hist[1].steps = 1
  /\ hist[2].key = "other" /\ hist[2].end = "completed" /\ hist[2].steps = 1

\* C3: an iteration whose key is 'q' is the last one: it runs no tracking
\* step and no viewer update, no frame is read after it, and the script then
\* releases the capture handle.
C3_QuitEndsLoop ==
  /\ frames = (IF pc = "start" THEN 0 ELSE Len(hist) + 1)
  /\ \A j \in Iters :
       hist[j].key = "q" =>
         /\ j = Len(hist)
         /\ hist[j].steps = 0
         /\ ~hist[j].viewed
         /\ pc \in {"reset", "start_key", "quit_key", "release", "done"}
         /\ Finished(j) => (hist[j].end = "quit" /\ pc \in {"release", "done"})
  /\ pc = "done" => released
  /\ released => (pc = "done" /\ Len(hist) > 0 /\ hist[Len(hist)].key = "q")

\* 'q' pressed while tracking was on, and the handle has been released
C3_Witness ==
  /\ pc = "done" /\ released
  /\ Len(hist) >= 2
  /\ hist[Len(hist)].key = "q"
  /\ hist[Len(hist)].flagIn = TRUE /\ hist[Len(hist)].flagOut = TRUE

\* what an iteration whose camera update fails does: it raises ValueError
\* before the key is read and touches nothing
FailedIterationInert ==
  \A j \in Iters :
    ~hist[j].ok =>
      /\ hist[j].key = "nokey"
      /\ ~hist[j].reset
      /\ hist[j].steps = 0
      /\ ~hist[j].viewed
      /\ j = Len(hist)
      /\ pc \in {"check", "raised"}
      /\ pose = hist[j].poseIn /\ tracking = hist[j].flagIn
      /\ Finished(j) =>
           /\ hist[j].end = "raised" /\ exc = "ValueError" /\ pc = "raised"
           /\ hist[j].poseOut = hist[j].poseIn
           /\ hist[j].flagOut = hist[j].flagIn

RaisedByCheck ==
  /\ exc = "ValueError"
  /\ Len(hist) > 0
  /\ ~hist[Len(hist)].ok

\* C4 (as stated): a failed camera update is fatal before the key is read,
\* and that check is the ONLY way a bad frame ends the script, the frame
\* read before the loop included.
C4_Original ==
  /\ FailedIterationInert
  /\ pc = "raised" => RaisedByCheck

\* C4 (amended): a failed camera update is fatal before the key is read, and
\* that check is the only ValueError the script raises; a bad frame read
\* before the loop is not checked and ends the script at frame.shape with an
\* AttributeError, before any loop iteration.
C4_FatalCheck ==
  /\ FailedIterationInert
  /\ exc = "ValueError" => (pc = "raised" /\ RaisedByCheck)
  /\ pc = "raised" =>
       \/ RaisedByCheck
       \/ (exc = "AttributeError" /\ hist = <<>> /\ frames = 1)

\* the camera update fails while tracking is on
C4_Witness ==
  /\ pc = "raised" /\ exc = "ValueError"
  /\ Len(hist) >= 2
  /\ hist[Len(hist)].flagIn = TRUE
  /\ hist[Len(hist) - 1].steps = 1

\* C5: the script writes the pose only in the first iteration and in
\* iterations whose key is 'd', always with the initial pose; an iteration
\* with tracking off and no reset leaves the pose unchanged.
C5_PoseWrites ==
  \A j \in Iters :
    /\ hist[j].wrote \in {"nothing", InitPose}
    /\ hist[j].reset <=> hist[j].wrote = InitPose
    /\ hist[j].reset => (j = 1 \/ hist[j].key = "d")
    /\ (j = 1 /\ hist[j].key # "nokey" /\ pc # "reset") => hist[j].reset
    /\ (Finished(j) /\ ~hist[j].reset /\ hist[j].steps = 0) =>
         hist[j].poseOut = hist[j].poseIn
    /\ (Finished(j) /\ hist[j].reset /\ hist[j].steps = 0) =>
         hist[j].poseOut = InitPose
    /\ j > 1 => hist[j].poseIn = hist[j - 1].poseOut

\* after tracking and a reset, an iteration with tracking off and no reset
C5_Witness ==
  \E j \in Iters :
    /\ j > 2
    /\ hist[j - 2].steps = 1
    /\ hist[j - 1].key = "d"
    /\ hist[j].key = "other" /\ hist[j].end = "completed"
    /\ ~hist[j].reset /\ hist[j].steps = 0

\* C10: a tracking step runs only on a pose the script has initialised, and
\* only if 'x' was read in this or an earlier iteration with no 'd' since.
C10_TrackerOnInitialisedPose ==
  \A j \in Iters :
    hist[j].steps > 0 =>
      /\ hist[j].stepOn # SetupPose
      /\ \E l \in 1..j : hist[l].reset
      /\ \E l \in 1..j : hist[l].key = "x" /\ NoKey({"d"}, l + 1, j)

\* a tracking step in an iteration whose own key is not 'x'
C10_Witness ==
  \E j \in Iters :
    /\ j > 1
    /\ hist[j].steps = 1 /\ hist[j].key = "other"
    /\ hist[j].stepOn \in TrackedPoses

(***************************************************************************)
(* simulation/sim1_rigid_body/costs.py                                     *)
(*                                                                         *)
(* A configuration q is a tuple of integers of length nq.  The fields of   *)
(* the shared pinocchio data (rdata) are modelled by the configuration     *)
(* they were last computed for (<<>> on fresh data); a value computed by   *)
(* pinocchio is modelled by its name, its length and the set of            *)
(* configurations of everything that went into it.  CostPosture works on   *)
(* plain vectors and is computed exactly.                                  *)
(***************************************************************************)
\* number of actuated joints of the robot model
NJoints == 2

\* configurations tried: one per coefficient 0..MaxCoef
MaxCoef == 1

\* number of calls made on the cost objects in one run
MaxCalls == 3

\* nq of a free-flyer joint (line 86, and the slice of line 90)
FreeFlyerNq == 7

\* nv of a free-flyer joint (the slice of line 100)
FreeFlyerNv == 6

\* the robot models: one with a free-flyer root joint (as Talos, line 190),
\* one with a fixed base
Models == {"freeflyer", "fixed"}

\* rmodel.joints[1].nq
FirstJointNq(m) == IF m = "freeflyer" THEN FreeFlyerNq ELSE 1

\* rmodel.nq
Nq(m) == IF m = "freeflyer" THEN FreeFlyerNq + NJoints ELSE NJoints

\* rmodel.nv
Nv(m) == IF m = "freeflyer" THEN FreeFlyerNv + NJoints ELSE NJoints

Configs(m) == {[j \in 1..Nq(m) |-> (a * j + 1) % 3] : a \in 0..MaxCoef}

\* the reference posture qref of CostPosture and CostPostureDiff (passed by
\* the caller or drawn once by pin.randomConfiguration; never changed after)
QRef(m) == [j \in 1..Nq(m) |-> j % 2]

NoStamp == <<>>

FreshData ==
  [oMi |-> NoStamp, oMf |-> NoStamp, J |-> NoStamp, ddq |-> NoStamp,
   ddq_dq |-> NoStamp, tau |-> NoStamp, dtau_dq |-> NoStamp]

FreshViewer ==
  [ball |-> [what |-> "none", at |-> NoStamp],
   box |-> [what |-> "none", at |-> NoStamp],
   shown |-> NoStamp]

\* ---- values and outcomes of a call
Value(e, n, at, vec) == [expr |-> e, len |-> n, at |-> at, vec |-> vec]

NoneValue == Value("None", 0, {}, <<>>)

Return(v) == [kind |-> "return", exc |-> "none", val |-> v]

Raise(e) == [kind |-> "raise", exc |-> e, val |-> NoneValue]

Out(res, self, rd, vw) == [res |-> res, self |-> self, rd |-> rd, vw |-> vw]

\* ---- Python attribute access on self
HasAttr(self, name) == name \in DOMAIN self

SetAttr(self, name, v) ==
  [x \in DOMAIN self \cup {name} |-> IF x = name THEN v ELSE self[x]]

\* ---- the pinocchio calls the costs make, by what they leave in rdata
framesForwardKinematics(rd, q) == [rd EXCEPT !.oMi = q, !.oMf = q]

forwardKinematics(rd, q) == [rd EXCEPT !.oMi = q]

\* recomputes oMf[frame] from the joint placements already in rdata
updateFramePlacement(rd) == [rd EXCEPT !.oMf = rd.oMi]

computeJointJacobians(rd, q) == [rd EXCEPT !.oMi = q, !.J = q]

computeFrameJacobian(rd, q) == [rd EXCEPT !.J = q]

aba(rd, q) == [rd EXCEPT !.ddq = q]

computeABADerivatives(rd, q) == [rd EXCEPT !.ddq = q, !.ddq_dq = q]

computeRNEADerivatives(rd, q) == [rd EXCEPT !.tau = q, !.dtau_dq = q]

\* ---- vectors
RECURSIVE SumSq(_)
SumSq(v) == IF v = <<>> THEN 0 ELSE v[1] * v[1] + SumSq(Tail(v))

\* v[n:]
Drop(v, n) == [j \in 1..(Len(v) - n) |-> v[j + n]]

Sub(a, b) == [j \in 1..Len(a) |-> a[j] - b[j]]

Twice(v) == [j \in 1..Len(v) |-> 2 * v[j]]

\* g = zeros(n); g[m:] = v
ZerosThen(n, m, v) == [j \in 1..n |-> IF j <= m THEN 0 ELSE v[j - m]]

\* ---- constructors (lines 12-17, 48-54, 83-86, 108-111, 129-133, 148-150)
Cost3d_init(m, viz) == [rmodel |-> m, rdata |-> "rdata", ptarget |-> "ptarget", viz |-> viz]

Cost6d_init(m, viz) == [rmodel |-> m, rdata |-> "rdata", Mtarget |-> "Mtarget", viz |-> viz]

CostPosture_init(m, qref) == [qref |-> qref, removeFreeFlyer |-> (FirstJointNq(m) = FreeFlyerNq)]

CostGravity_init(m) == [rmodel |-> m, rdata |-> "rdata", viz |-> "None"]

CostWeightedGravity_init(m) == [rmodel |-> m, rdata |-> "rdata", viz |-> "None", v0 |-> "zeros"]

CostPostureDiff_init(m, qref) == [rmodel |-> m, qref |-> qref]

\* ---- Cost3d
Cost3d_residual(self, rd, vw, q) ==
  LET rd1 == framesForwardKinematics(rd, q)
  IN  Out(Return(Value("oMf.translation - ptarget", 3, {rd1.oMf}, <<>>)), self, rd1, vw)

Cost3d_calc(self, rd, vw, q) ==
  LET o == Cost3d_residual(self, rd, vw, q)
  IN  Out(Return(Value("sum(residual ** 2)", 1, o.res.val.at, <<>>)), o.self, o.rd, o.vw)

Cost3d_callback(self, rd, vw, q) ==
  IF self.viz = "None"
    THEN Out(Return(NoneValue), self, rd, vw)
    ELSE LET rd1 == framesForwardKinematics(rd, q)
             vw1 == [ball |-> [what |-> "oMf", at |-> rd1.oMf],
                     box |-> [what |-> self.ptarget, at |-> NoStamp],
                     shown |-> q]
         IN  Out(Return(NoneValue), self, rd1, vw1)

Cost3d_calcDiff(self, rd, vw, q) ==
  LET rd1 == framesForwardKinematics(rd, q)
      rd2 == computeJointJacobians(rd1, q)
  IN  Out(Return(Value("2 J.T (oMf.translation - ptarget)", Nv(self.rmodel),
                       {rd2.oMf, rd2.J, rd2.oMi}, <<>>)),
          self, rd2, vw)

\* ---- Cost6d
Cost6d_residual(self, rd, vw, q) ==
  LET rd1 == forwardKinematics(rd, q)
      rd2 == updateFramePlacement(rd1)
      self1 == SetAttr(self, "deltaM", rd2.oMf)
  IN  Out(Return(Value("log(deltaM)", 6, {self1.deltaM}, <<>>)), self1, rd2, vw)

Cost6d_calc(self, rd, vw, q) ==
  LET o == Cost6d_residual(self, rd, vw, q)
  IN  Out(Return(Value("sum(residual ** 2)", 1, o.res.val.at, <<>>)), o.self, o.rd, o.vw)

\* line 69 evaluates the name M, which is bound nowhere in the method or the
\* module: NameError before any viewer call
Cost6d_callback(self, rd, vw, q) ==
  IF self.viz = "None"
    THEN Out(Return(NoneValue), self, rd, vw)
    ELSE Out(Raise("NameError"), self, rd, vw)

\* mutant: Jlog6(self.deltaM) is evaluated before residual(q) is called
Cost6d_calcDiff_StaleDelta(self, rd, vw, q) ==
  LET rd1 == computeFrameJacobian(rd, q)
  IN  IF ~HasAttr(self, "deltaM")
        THEN Out(Raise("AttributeError"), self, rd1, vw)
        ELSE LET o == Cost6d_residual(self, rd1, vw, q)
             IN  Out(Return(Value("2 J.T Jlog.T r", Nv(self.rmodel),
                                  {q} \cup o.res.val.at \cup {self.deltaM}, <<>>)),
                     o.self, o.rd, o.vw)

Cost6d_calcDiff(self, rd, vw, q) ==
  LET rd1 == computeFrameJacobian(rd, q)
      o == Cost6d_residual(self, rd1, vw, q)
  IN  IF ~HasAttr(o.self, "deltaM")
        THEN Out(Raise("AttributeError"), o.self, o.rd, o.vw)
        ELSE Out(Return(Value("2 J.T Jlog.T r", Nv(self.rmodel),
                              {q} \cup o.res.val.at \cup {o.self.deltaM}, <<>>)),
                 o.self, o.rd, o.vw)

\* ---- CostPosture
CostPosture_residual(self, rd, vw, q) ==
  IF self.removeFreeFlyer
    THEN Out(Return(Value("vector", Len(q) - FreeFlyerNq, {q},
                          Drop(Sub(q, self.qref), FreeFlyerNq))), self, rd, vw)
    ELSE Out(Return(Value("vector", Len(q), {q}, Sub(q, self.qref))), self, rd, vw)

CostPosture_calc(self, rd, vw, q) ==
  LET o == CostPosture_residual(self, rd, vw, q)
  IN  Out(Return(Value("scalar", 1, {q}, <<SumSq(o.res.val.vec)>>)), self, rd, vw)

\* line 99 reads self.rmodel, which __init__ never sets
CostPosture_calcDiff(self, rd, vw, q) ==
  IF self.removeFreeFlyer
    THEN IF ~HasAttr(self, "rmodel")
           THEN Out(Raise("AttributeError"), self, rd, vw)
           ELSE LET r == CostPosture_residual(self, rd, vw, q).res.val.vec
                IN  Out(Return(Value("vector", Nv(self.rmodel), {q},
                                     ZerosThen(Nv(self.rmodel), FreeFlyerNv, Twice(r)))),
                        self, rd, vw)
    ELSE LET r == CostPosture_residual(self, rd, vw, q).res.val.vec
         IN  Out(Return(Value("vector", Len(r), {q}, Twice(r))), self, rd, vw)

\* ---- CostGravity
CostGravity_residual(self, rd, vw, q) ==
  Out(Return(Value("g", Nv(self.rmodel), {q}, <<>>)), self, rd, vw)

CostGravity_calc(self, rd, vw, q) ==
  LET o == CostGravity_residual(self, rd, vw, q)
  IN  Out(Return(Value("sum(residual ** 2)", 1, o.res.val.at, <<>>)), self, rd, vw)

CostGravity_calcDiff(self, rd, vw, q) ==
  LET o == CostGravity_residual(self, rd, vw, q)
  IN  Out(Return(Value("2 G.T g", Nv(self.rmodel), o.res.val.at \cup {q}, <<>>)),
          self, rd, vw)

\* ---- CostWeightedGravity
CostWeightedGravity_calc(self, rd, vw, q) ==
  LET rd1 == aba(rd, q)
  IN  Out(Return(Value("dot(-aba, g)", 1, {q}, <<>>)), self, rd1, vw)

CostWeightedGravity_calcDiff(self, rd, vw, q) ==
  LET rd1 == computeABADerivatives(rd, q)
      rd2 == computeRNEADerivatives(rd1, q)
  IN  Out(Return(Value("-dtau_dq.T ddq - ddq_dq.T tau", Nv(self.rmodel),
                       {rd2.dtau_dq, rd2.ddq, rd2.ddq_dq, rd2.tau}, <<>>)),
          self, rd2, vw)

\* ---- CostPostureDiff
CostPostureDiff_residual(self, rd, vw, q) ==
  Out(Return(Value("difference(q, qref)", Nv(self.rmodel), {q}, <<>>)), self, rd, vw)

CostPostureDiff_calc(self, rd, vw, q) ==
  LET o == CostPostureDiff_residual(self, rd, vw, q)
  IN  Out(Return(Value("sum(residual ** 2)", 1, o.res.val.at, <<>>)), self, rd, vw)

CostPostureDiff_calcDiff(self, rd, vw, q) ==
  LET o == CostPostureDiff_residual(self, rd, vw, q)
  IN  Out(Return(Value("2 J.T residual", Nv(self.rmodel), o.res.val.at \cup {q}, <<>>)),
          self, rd, vw)

Classes ==
  {"Cost3d", "Cost6d", "CostPosture", "CostGravity", "CostWeightedGravity", "CostPostureDiff"}

\* the cost objects are built on the same model/data pair (lines 199-234)
CostInit ==
  /\ rmodel \in Models
  /\ rdata = FreshData
  /\ viewer = FreshViewer
  /\ \E viz \in {"None", "viz"} :
       attrs = [c \in Classes |->
                  CASE c = "Cost3d" -> Cost3d_init(rmodel, viz)
                    [] c = "Cost6d" -> Cost6d_init(rmodel, viz)
                    [] c = "CostPosture" -> CostPosture_init(rmodel, QRef(rmodel))
                    [] c = "CostGravity" -> CostGravity_init(rmodel)
                    [] c = "CostWeightedGravity" -> CostWeightedGravity_init(rmodel)
                    [] OTHER -> CostPostureDiff_init(rmodel, QRef(rmodel))]
  /\ last = [cls |-> "none", meth |-> "none", q |-> NoStamp, res |-> Return(NoneValue),
             changed |-> FALSE, stale |-> FALSE, n |-> 0]
  \* the webcam script is not running
  /\ pc = "idle"
  /\ first = FirstInit
  /\ tracking = TrackingInit
  /\ i = 0
  /\ k = "nokey"
  /\ ok = TRUE
  /\ pose = SetupPose
  /\ frames = 0
  /\ released = FALSE
  /\ exc = "none"
  /\ hist = <<>>

\* rdata or self hold a quantity computed for a configuration other than q
StaleFor(self, rd, q) ==
  \/ \E f \in DOMAIN rd : rd[f] \notin {NoStamp, q}
  \/ HasAttr(self, "deltaM") /\ self["deltaM"] # q

\* one call cls.meth(q) with outcome o; last records the call, whether it
\* changed rdata or the viewer, and whether it started on stale data
Call(cls, meth, q, o) ==
  /\ last.n < MaxCalls
  /\ attrs' = [attrs EXCEPT ![cls] = o.self]
  /\ rdata' = o.rd
  /\ viewer' = o.vw
  /\ last' = [cls |-> cls, meth |-> meth, q |-> q, res |-> o.res,
              changed |-> (o.rd # rdata \/ o.vw # viewer),
              stale |-> StaleFor(attrs[cls], rdata, q),
              n |-> last.n + 1]
  /\ UNCHANGED rmodel
  /\ UNCHANGED trackerVars

Cost3dResidual ==
  \E q \in Configs(rmodel) :
    Call("Cost3d", "residual", q, Cost3d_residual(attrs["Cost3d"], rdata, viewer, q))

Cost3dCalc ==
  \E q \in Configs(rmodel) :
    Call("Cost3d", "calc", q, Cost3d_calc(attrs["Cost3d"], rdata, viewer, q))

Cost3dCallback ==
  \E q \in Configs(rmodel) :
    Call("Cost3d", "callback", q, Cost3d_callback(attrs["Cost3d"], rdata, viewer, q))

Cost3dCalcDiff ==
  \E q \in Configs(rmodel) :
    Call("Cost3d", "calcDiff", q, Cost3d_calcDiff(attrs["Cost3d"], rdata, viewer, q))

Cost6dResidual ==
  \E q \in Configs(rmodel) :
    Call("Cost6d", "residual", q, Cost6d_residual(attrs["Cost6d"], rdata, viewer, q))

Cost6dCalc ==
  \E q \in Configs(rmodel) :
    Call("Cost6d", "calc", q, Cost6d_calc(attrs["Cost6d"], rdata, viewer, q))

Cost6dCallback ==
  \E q \in Configs(rmodel) :
    Call("Cost6d", "callback", q, Cost6d_callback(attrs["Cost6d"], rdata, viewer, q))

Cost6dCalcDiff ==
  \E q \in Configs(rmodel) :
    Call("Cost6d", "calcDiff", q, Cost6d_calcDiff(attrs["Cost6d"], rdata, viewer, q))

CostPostureResidual ==
  \E q \in Configs(rmodel) :
    Call("CostPosture", "residual", q,
         CostPosture_residual(attrs["CostPosture"], rdata, viewer, q))

CostPostureCalc ==
  \E q \in Configs(rmodel) :
    Call("CostPosture", "calc", q, CostPosture_calc(attrs["CostPosture"], rdata, viewer, q))

CostPostureCalcDiff ==
  \E q \in Configs(rmodel) :
    Call("CostPosture", "calcDiff", q,
         CostPosture_calcDiff(attrs["CostPosture"], rdata, viewer, q))

CostGravityResidual ==
  \E q \in Configs(rmodel) :
    Call("CostGravity", "residual", q,
         CostGravity_residual(attrs["CostGravity"], rdata, viewer, q))

CostGravityCalc ==
  \E q \in Configs(rmodel) :
    Call("CostGravity", "calc", q, CostGravity_calc(attrs["CostGravity"], rdata, viewer, q))

CostGravityCalcDiff ==
  \E q \in Configs(rmodel) :
    Call("CostGravity", "calcDiff", q,
         CostGravity_calcDiff(attrs["CostGravity"], rdata, viewer, q))

CostWeightedGravityCalc ==
  \E q \in Configs(rmodel) :
    Call("CostWeightedGravity", "calc", q,
         CostWeightedGravity_calc(attrs["CostWeightedGravity"], rdata, viewer, q))

CostWeightedGravityCalcDiff ==
  \E q \in Configs(rmodel) :
    Call("CostWeightedGravity", "calcDiff", q,
         CostWeightedGravity_calcDiff(attrs["CostWeightedGravity"], rdata, viewer, q))

CostPostureDiffResidual ==
  \E q \in Configs(rmodel) :
    Call("CostPostureDiff", "residual", q,
         CostPostureDiff_residual(attrs["CostPostureDiff"], rdata, viewer, q))

CostPostureDiffCalc ==
  \E q \in Configs(rmodel) :
    Call("CostPostureDiff", "calc", q,
         CostPostureDiff_calc(attrs["CostPostureDiff"], rdata, viewer, q))

CostPostureDiffCalcDiff ==
  \E q \in Configs(rmodel) :
    Call("CostPostureDiff", "calcDiff", q,
         CostPostureDiff_calcDiff(attrs["CostPostureDiff"], rdata, viewer, q))

CostNext ==
  \/ Cost3dResidual
  \/ Cost3dCalc
  \/ Cost3dCallback
  \/ Cost3dCalcDiff
  \/ Cost6dResidual
  \/ Cost6dCalc
  \/ Cost6dCallback
  \/ Cost6dCalcDiff
  \/ CostPostureResidual
  \/ CostPostureCalc
  \/ CostPostureCalcDiff
  \/ CostGravityResidual
  \/ CostGravityCalc
  \/ CostGravityCalcDiff
  \/ CostWeightedGravityCalc
  \/ CostWeightedGravityCalcDiff
  \/ CostPostureDiffResidual
  \/ CostPostureDiffCalc
  \/ CostPostureDiffCalcDiff

SpecCosts == CostInit /\ [][CostNext]_vars

(***************************************************************************)
(* Properties of the cost classes                                          *)
(***************************************************************************)
\* C6: calcDiff(q) of each of the six cost classes completes and returns a
\* vector of length nv (the part of the gradient test that does not depend
\* on pinocchio's numerical values).
C6_GradientsComplete ==
  last.meth = "calcDiff" =>
    /\ last.res.kind = "return"
    /\ last.res.val.len = Nv(rmodel)

\* C7: CostPosture leaves the free flyer out: with a free-flyer model
\* residual(q) is q - qref without its first 7 entries and calcDiff(q) has
\* length nv, six leading zeros and then twice the residual; without a free
\* flyer residual(q) = q - qref and calcDiff(q) = 2 (q - qref).  Both calls
\* return.
C7_PostureSkipsFreeFlyer ==
  LET q == last.q
      qref == attrs["CostPosture"].qref
      v == last.res.val.vec
  IN  (last.cls = "CostPosture" /\ last.meth \in {"residual", "calcDiff"}) =>
        /\ last.res.kind = "return"
        /\ IF rmodel = "freeflyer"
             THEN IF last.meth = "residual"
                    THEN /\ Len(v) = Len(q) - 7
                         /\ \A j \in 1..Len(v) : v[j] = q[j + 7] - qref[j + 7]
                    ELSE /\ Len(v) = Nv(rmodel)
                         /\ \A j \in 1..6 : v[j] = 0
                         /\ \A j \in 7..Len(v) : v[j] = 2 * (q[j + 1] - qref[j + 1])
             ELSE /\ Len(v) = Len(q)
                  /\ \A j \in 1..Len(v) :
                       v[j] = (IF last.meth = "residual" THEN 1 ELSE 2) * (q[j] - qref[j])

\* C8: callback(q) of Cost3d and Cost6d does nothing without a viewer; with
\* a viewer it returns after placing world/ball at the tracked frame's
\* placement for q, world/box at the target, and displaying q.
C8_Callbacks ==
  (last.meth = "callback" /\ last.cls \in {"Cost3d", "Cost6d"}) =>
    /\ last.res.kind = "return"
    /\ IF attrs[last.cls].viz = "None"
         THEN ~last.changed
         ELSE /\ viewer.ball = [what |-> "oMf", at |-> last.q]
              /\ viewer.box.what = (IF last.cls = "Cost3d" THEN "ptarget" ELSE "Mtarget")
              /\ viewer.shown = last.q

\* C9: whatever calls were made before on the cost objects sharing rdata,
\* everything that goes into the value returned by residual(q), calc(q) or
\* calcDiff(q) was computed for q within the call; Cost6d.calcDiff returns
\* also as the first call on a fresh object.
C9_NoStaleReads ==
  /\ (last.meth \in {"residual", "calc", "calcDiff"} /\ last.res.kind = "return") =>
       last.res.val.at = {last.q}
  /\ (last.cls = "Cost6d" /\ last.meth = "calcDiff") =>
       /\ last.res.kind = "return"
       /\ attrs["Cost6d"]["deltaM"] = last.q

\* Cost6d.calcDiff(q) has returned on an object whose deltaM, or the shared
\* rdata, was left by a call with another configuration
C9_Witness ==
  /\ last.cls = "Cost6d" /\ last.meth = "calcDiff"
  /\ last.res.kind = "return"
  /\ last.stale
  /\ \E f \in DOMAIN rdata : rdata[f] \notin {NoStamp, last.q}

====
